---- MODULE Spec2Model ----
(***************************************************************************)
(* Posts, comments and likes of the applify backend: the Post, Comment and *)
(* Like collections and the route handlers of routes/posts.js and          *)
(* routes/comments.js.  Every handler is an async function: each `await`   *)
(* of a store call is a point where another request can run, so a handler  *)
(* is one action per store call.  A process is one in-flight request slot. *)
(*                                                                         *)
(* ObjectIds are modelled per collection as the allocation order, which is *)
(* also the order of the createdAt timestamps (creation times are taken to *)
(* be distinct).  A post's updatedAt is kept as the number of times a save  *)
(* has refreshed it: 0 is the creation time, a greater number a later time.*)
(***************************************************************************)
EXTENDS Integers, Sequences, FiniteSets, TLC

VARIABLES posts, comments, likes,        \* the three collections
          nextPostId, nextCommentId, nextLikeId,
          pr,                            \* pr[p]: the request process p handles
          hist,                          \* observer: previous request, snapshots,
                                         \* the payload as it was sent, the
                                         \* like queries of the listings
          deletedOK                      \* observer: the post deletes' cascades

store == <<posts, comments, likes, nextPostId, nextCommentId, nextLikeId>>
vars  == <<posts, comments, likes, nextPostId, nextCommentId, nextLikeId,
           pr, hist, deletedOK>>

\* ---------------------------------------------------------------- bounds
MaxPosts == 2
MaxComments == 3
MaxLikes == 2
MaxPage == 2
MaxLimit == 2
MaxUpdates == 1

\* ------------------------------------------------------ program constants
MaxContentLen == 5000
MaxTextLen == 1000
DefaultPage == 1
DefaultLimit == 10

Users == {"A", "B"}
Procs == {"p1", "p2"}
SeqProcs == {"p1"}
NoUser == "nobody"

PostIds == 1..MaxPosts
CommentIds == 1..MaxComments

\* Request bodies: strings are sequences of characters.
Contents == { <<>>, <<" ">>, <<"a">>, <<" ", "b", " ">> }
Privacies == {"none", "public", "private", "bogus"}
Files == {"none", "image", "text"}

\* ------------------------------------------------------------ validation
IsSpace(ch) == ch = " "

RECURSIVE TrimLeft(_)
TrimLeft(s) ==
    IF s = <<>> THEN s
    ELSE IF IsSpace(Head(s)) THEN TrimLeft(Tail(s)) ELSE s

RECURSIVE TrimRight(_)
TrimRight(s) ==
    IF s = <<>> THEN s
    ELSE IF IsSpace(s[Len(s)]) THEN TrimRight(SubSeq(s, 1, Len(s) - 1)) ELSE s

Trim(s) == TrimRight(TrimLeft(s))

\* validatePost: content trimmed, not empty, at most 5000 characters;
\* privacy optional, else one of public/private.
ContentValid(content) ==
    /\ Trim(content) # <<>>
    /\ Len(Trim(content)) <= MaxContentLen

PrivacyValid(privacy) == privacy \in {"none", "public", "private"}

ValidatePost(content, privacy) == ContentValid(content) /\ PrivacyValid(privacy)

\* validateComment: text trimmed, not empty, at most 1000 characters.
ValidateComment(text) ==
    /\ Trim(text) # <<>>
    /\ Len(Trim(text)) <= MaxTextLen

\* The error middleware behind next(error): a duplicate key is answered 400,
\* anything else 500; never a success.
ErrorHandler(err) == IF err = "DuplicateKey" THEN 400 ELSE 500

\* ---------------------------------------------------------------- store
PostById(id) == {q \in posts : q.id = id}
CommentById(id) == {c \in comments : c.id = id}

LikesOn(L, ttype, id) == {l \in L : l.targetType = ttype /\ l.targetId = id}
LikesBy(L, u, ttype, id) == {l \in LikesOn(L, ttype, id) : l.user = u}

\* Like.countDocuments({targetType, targetId})
CountLikes(ttype, id) == Cardinality(LikesOn(likes, ttype, id))
\* (mutant) the existence query finds a Like of every user
UserLikedAlways(u, ttype, id) == TRUE

\* Like.exists({targetType, targetId, user})
UserLiked(u, ttype, id) == LikesBy(likes, u, ttype, id) # {}

Min(S) == CHOOSE x \in S : \A y \in S : x <= y

\* sort({createdAt: -1}) and sort({createdAt: 1}) of a set of documents
RECURSIVE SortDesc(_)
SortDesc(S) ==
    IF S = {} THEN <<>>
    ELSE LET m == CHOOSE d \in S : \A e \in S : e.id <= d.id
         IN <<m>> \o SortDesc(S \ {m})

RECURSIVE SortAsc(_)
SortAsc(S) ==
    IF S = {} THEN <<>>
    ELSE LET m == CHOOSE d \in S : \A e \in S : d.id <= e.id
         IN <<m>> \o SortAsc(S \ {m})

\* (mutant) the skip is dropped: every page is the first page
SkipLimitNoSkip(s, skip, limit) ==
    SubSeq(s, 1, IF limit > Len(s) THEN Len(s) ELSE limit)

\* skip(skip).limit(limit) of a sorted result
SkipLimit(s, skip, limit) ==
    SubSeq(s, skip + 1, IF skip + limit > Len(s) THEN Len(s) ELSE skip + limit)

\* Math.ceil(total / limit)
CeilDiv(total, limit) == (total + limit - 1) \div limit

\* parseInt(req.query.x) || dflt   (0 stands for an absent, zero or NaN value)
ParseOr(x, dflt) == IF x = 0 THEN dflt ELSE x

\* ------------------------------------------------------------- processes
NoResp == [status |-> 0, isLiked |-> FALSE, likeCount |-> 0, data |-> <<>>,
           page |-> 0, limit |-> 0, total |-> 0, pages |-> 0]

Idle == [pc |-> "idle", op |-> "none", user |-> NoUser, ttype |-> "none",
         id |-> 0, content |-> <<>>, privacy |-> "none", doc |-> <<>>,
         existing |-> 0, items |-> <<>>, resp |-> NoResp]

Ready(p) == pr[p].pc \in {"idle", "done"}

Request(op, u, ttype, id) ==
    [Idle EXCEPT !.op = op, !.user = u, !.ttype = ttype, !.id = id]

\* res.status(s).json(...) with no payload the model reads
Respond(r, s) ==
    [r EXCEPT !.pc = "done", !.doc = <<>>, !.existing = 0, !.items = <<>>,
              !.resp = [NoResp EXCEPT !.status = s]]

\* res.status(s).json({data: ...}): the handler's locals go with the request
RespondWith(r, resp) ==
    [r EXCEPT !.pc = "done", !.doc = <<>>, !.existing = 0, !.items = <<>>,
              !.resp = resp]

\* ------------------------------------------------------------ Post: create
\* router.post("/"): multer's fileFilter and validatePost; what follows is the
\* upload when a file is attached, else Post.create.
CreatePost(p, u, content, privacy, file) ==
    /\ Ready(p)
    /\ nextPostId <= MaxPosts
    /\ LET r == [Request("createPost", u, "Post", 0) EXCEPT
                   !.content = content, !.privacy = privacy]
           fields == [content |-> Trim(content),
                      image |-> "null",
                      privacy |-> IF privacy = "none" THEN "public" ELSE privacy,
                      author |-> u]
       IN pr' = [pr EXCEPT ![p] =
                   IF file = "text" THEN Respond(r, ErrorHandler("Upload"))
                   ELSE IF ~ValidatePost(content, privacy) THEN Respond(r, 400)
                   ELSE [r EXCEPT !.pc = IF file = "image" THEN "crUpload"
                                         ELSE "crCreate",
                                  !.doc = <<fields>>]]
    /\ UNCHANGED store

\* await uploadToCloudinary(req.file.buffer, "posts"): the URL, or a rejection
\* that the handler's catch passes to next(error)
CrUpload(p, uploadOk) ==
    /\ pr[p].pc = "crUpload"
    /\ pr' = [pr EXCEPT ![p] =
                IF uploadOk
                THEN [@ EXCEPT !.pc = "crCreate", !.doc[1].image = "url"]
                ELSE Respond(pr[p], ErrorHandler("Upload"))]
    /\ UNCHANGED store

\* Post.create({content, image, privacy, author}) is executed by the store
CrCreate(p) ==
    /\ pr[p].pc = "crCreate"
    /\ nextPostId <= MaxPosts
    /\ LET f == pr[p].doc[1]
           doc == [id |-> nextPostId, content |-> f.content, image |-> f.image,
                   privacy |-> f.privacy, author |-> f.author, updatedAt |-> 0]
       IN /\ posts' = posts \cup {doc}
          /\ nextPostId' = nextPostId + 1
          /\ pr' = [pr EXCEPT ![p] =
                      [@ EXCEPT !.pc = "crRespond", !.id = doc.id, !.doc = <<doc>>]]
    /\ UNCHANGED <<comments, likes, nextCommentId, nextLikeId>>

\* post.populate("author"), then res.status(201).json({data: post})
CrRespond(p) ==
    /\ pr[p].pc = "crRespond"
    /\ pr' = [pr EXCEPT ![p] =
                RespondWith(pr[p], [NoResp EXCEPT !.status = 201,
                                                  !.data = pr[p].doc])]
    /\ UNCHANGED store

\* -------------------------------------------------------------- Post: feed
\* (mutant) the feed query without its visibility filter
EligibleAll(u) == posts

\* Post.find({$or: [{privacy: "public"}, {author: req.user._id}]})
Eligible(u) == {q \in posts : q.privacy = "public" \/ q.author = u}

FeedItem(doc) == [post |-> doc, stage |-> 0, likeCount |-> 0, isLiked |-> FALSE]

\* router.get("/"): parse page and limit, find the page.
FeedFind(p, u, page, limit) ==
    /\ Ready(p)
    /\ LET pg == ParseOr(page, DefaultPage)
           lm == ParseOr(limit, DefaultLimit)
           skip == (pg - 1) * lm
           found == SkipLimit(SortDesc(Eligible(u)), skip, lm)
           r == Request("feed", u, "Post", 0)
       IN pr' = [pr EXCEPT ![p] =
                   [r EXCEPT !.pc = "feedLikes",
                             !.items = [i \in 1..Len(found) |-> FeedItem(found[i])],
                             !.resp = [NoResp EXCEPT !.page = pg, !.limit = lm]]]
    /\ UNCHANGED store

\* Like.countDocuments for the i-th post of the page
FeedCount(p, i) ==
    /\ pr[p].pc = "feedLikes"
    /\ i \in 1..Len(pr[p].items)
    /\ pr[p].items[i].stage = 0
    /\ pr' = [pr EXCEPT ![p].items[i] =
                [@ EXCEPT !.stage = 1,
                          !.likeCount = CountLikes("Post", pr[p].items[i].post.id)]]
    /\ UNCHANGED store

\* Like.exists for the i-th post of the page
FeedExists(p, i) ==
    /\ pr[p].pc = "feedLikes"
    /\ i \in 1..Len(pr[p].items)
    /\ pr[p].items[i].stage = 1
    /\ pr' = [pr EXCEPT ![p].items[i] =
                [@ EXCEPT !.stage = 2,
                          !.isLiked = UserLiked(pr[p].user, "Post",
                                                pr[p].items[i].post.id)]]
    /\ UNCHANGED store

\* Post.countDocuments (total), then the response
FeedTotal(p) ==
    /\ pr[p].pc = "feedLikes"
    /\ \A i \in 1..Len(pr[p].items) : pr[p].items[i].stage = 2
    /\ LET total == Cardinality(Eligible(pr[p].user)) IN
       pr' = [pr EXCEPT ![p] =
                RespondWith(pr[p],
                            [pr[p].resp EXCEPT
                               !.status = 200,
                               !.data = pr[p].items,
                               !.total = total,
                               !.pages = CeilDiv(total, pr[p].resp.limit)])]
    /\ UNCHANGED store

\* (mutant) the ownership check lets every requester through
IsAuthorAnyone(doc, u) == TRUE

\* doc.author.toString() !== req.user._id.toString() is the refusal
IsAuthor(doc, u) == doc.author = u

\* ------------------------------------------------------------ Post: update
\* router.put("/:id"): validatePost, Post.findById, the author check.
UpdFind(p, u, id, content, privacy) ==
    /\ Ready(p)
    /\ LET r == [Request("updatePost", u, "Post", id) EXCEPT
                   !.content = content, !.privacy = privacy] IN
       pr' = [pr EXCEPT ![p] =
                IF ~ValidatePost(content, privacy) THEN Respond(r, 400)
                ELSE IF PostById(id) = {} THEN Respond(r, 404)
                ELSE LET post == CHOOSE q \in PostById(id) : TRUE IN
                     IF ~IsAuthor(post, u) THEN Respond(r, 403)
                     ELSE [r EXCEPT !.pc = "updSave", !.doc = <<post>>,
                                    !.content = Trim(content),
                                    !.privacy = privacy]]
    /\ UNCHANGED store

\* (mutant) the privacy is assigned whether or not one was sent
AssignedPrivacyAlways(r) ==
    [r.doc[1] EXCEPT !.content = r.content, !.privacy = r.privacy]

\* post.content = content; if (privacy) post.privacy = privacy
Assigned(r) ==
    [r.doc[1] EXCEPT !.content = r.content,
                     !.privacy = IF r.privacy # "none" THEN r.privacy ELSE @]

\* post.save() is executed: it writes the modified paths of the loaded
\* document by _id and, the schema having timestamps: true, refreshes
\* updatedAt when a path is modified (the timestamps pre-save hook sets it for
\* a new or modified document only), in the store and in the handler's
\* document; a document that is gone is a DocumentNotFoundError when a path is
\* modified (with none modified the outcome depends on the driver: either
\* one).
UpdSave(p, lenient) ==
    /\ pr[p].pc = "updSave"
    /\ LET r == pr[p]
           loaded == r.doc[1]
           new == Assigned(r)
           cur == PostById(r.id)
       IN IF cur # {}
          THEN LET q == CHOOSE c \in cur : TRUE
                   saved ==
                     [q EXCEPT !.content = IF new.content # loaded.content
                                           THEN new.content ELSE @,
                               !.privacy = IF new.privacy # loaded.privacy
                                           THEN new.privacy ELSE @,
                               !.updatedAt = IF new # loaded THEN @ + 1 ELSE @]
                   mine == IF new # loaded
                           THEN [new EXCEPT !.updatedAt = saved.updatedAt]
                           ELSE new
               IN /\ new # loaded => q.updatedAt < MaxUpdates
                  /\ posts' = (posts \ {q}) \cup {saved}
                  /\ pr' = [pr EXCEPT ![p] =
                              [r EXCEPT !.pc = "updRespond", !.doc = <<mine>>]]
          ELSE /\ posts' = posts
               /\ pr' = [pr EXCEPT ![p] =
                           IF new = loaded /\ lenient
                           THEN [r EXCEPT !.pc = "updRespond", !.doc = <<new>>]
                           ELSE Respond(r, ErrorHandler("DocumentNotFound"))]
    /\ UNCHANGED <<comments, likes, nextPostId, nextCommentId, nextLikeId>>

\* post.populate("author"), then res.status(200).json({data: post})
UpdRespond(p) ==
    /\ pr[p].pc = "updRespond"
    /\ pr' = [pr EXCEPT ![p] =
                RespondWith(pr[p], [NoResp EXCEPT !.status = 200,
                                                  !.data = pr[p].doc])]
    /\ UNCHANGED store

\* ------------------------------------------------------------ Post: delete
\* router.delete("/:id"): Post.findById, the author check.
DelFind(p, u, id) ==
    /\ Ready(p)
    /\ LET r == Request("deletePost", u, "Post", id) IN
       pr' = [pr EXCEPT ![p] =
                IF PostById(id) = {} THEN Respond(r, 404)
                ELSE IF ~IsAuthor(CHOOSE q \in PostById(id) : TRUE, u)
                THEN Respond(r, 403)
                ELSE [r EXCEPT !.pc = "delPost"]]
    /\ UNCHANGED store

\* (mutant) the post delete takes the comments of the post with it
DelPostWithComments(p) ==
    /\ pr[p].pc = "delPost"
    /\ posts' = posts \ PostById(pr[p].id)
    /\ comments' = {c \in comments : c.post # pr[p].id}
    /\ pr' = [pr EXCEPT ![p].pc = "delLikes"]
    /\ UNCHANGED <<likes, nextPostId, nextCommentId, nextLikeId>>

\* Post.findByIdAndDelete(req.params.id)
DelPost(p) ==
    /\ pr[p].pc = "delPost"
    /\ posts' = posts \ PostById(pr[p].id)
    /\ pr' = [pr EXCEPT ![p].pc = "delLikes"]
    /\ UNCHANGED <<comments, likes, nextPostId, nextCommentId, nextLikeId>>

\* (mutant) the post delete without its cascade to the Likes
DelLikesNoCascade(p) ==
    /\ pr[p].pc = "delLikes"
    /\ pr' = [pr EXCEPT ![p].pc = "delRespond"]
    /\ UNCHANGED store

\* Like.deleteMany({targetType: "Post", targetId}) is executed by the store;
\* its result has not reached the handler yet
DelLikes(p) ==
    /\ pr[p].pc = "delLikes"
    /\ likes' = likes \ LikesOn(likes, "Post", pr[p].id)
    /\ pr' = [pr EXCEPT ![p].pc = "delRespond"]
    /\ UNCHANGED <<posts, comments, nextPostId, nextCommentId, nextLikeId>>

\* The await of Like.deleteMany resumes: res.status(200).json(...)
DelRespond(p) ==
    /\ pr[p].pc = "delRespond"
    /\ pr' = [pr EXCEPT ![p] = Respond(pr[p], 200)]
    /\ UNCHANGED store

\* ------------------------------------------------------------- Like: toggle
\* (mutant) the target lookup finds every id
TargetExistsAlways(ttype, id) == TRUE

\* Post.findById / Comment.findById of the target
TargetExists(ttype, id) ==
    IF ttype = "Post" THEN PostById(id) # {} ELSE CommentById(id) # {}

\* router.post("/:id/like") of posts.js and of comments.js: the target lookup
TgFind(p, u, ttype, id) ==
    /\ Ready(p)
    /\ LET r == Request("toggleLike", u, ttype, id) IN
       pr' = [pr EXCEPT ![p] =
                IF ~TargetExists(ttype, id) THEN Respond(r, 404)
                ELSE [r EXCEPT !.pc = "tgLookup"]]
    /\ UNCHANGED store

\* Like.findOne({user, targetType, targetId})
TgLookup(p) ==
    /\ pr[p].pc = "tgLookup"
    /\ LET mine == LikesBy(likes, pr[p].user, pr[p].ttype, pr[p].id) IN
       pr' = [pr EXCEPT ![p] =
                [@ EXCEPT !.pc = "tgWrite",
                          !.existing = IF mine = {} THEN 0
                                       ELSE Min({l.id : l \in mine})]]
    /\ UNCHANGED store

\* (mutant) the unlike branch leaves the Like in place
TgUnlikeNoDelete(p) ==
    /\ pr[p].pc = "tgWrite"
    /\ pr[p].existing # 0
    /\ pr' = [pr EXCEPT ![p].pc = "tgCount"]
    /\ UNCHANGED store

\* Like.findByIdAndDelete(existingLike._id)
TgUnlike(p) ==
    /\ pr[p].pc = "tgWrite"
    /\ pr[p].existing # 0
    /\ likes' = {l \in likes : l.id # pr[p].existing}
    /\ pr' = [pr EXCEPT ![p].pc = "tgCount"]
    /\ UNCHANGED <<posts, comments, nextPostId, nextCommentId, nextLikeId>>

\* (mutant) the Like collection without its unique index
NoUniqueIndex(u, ttype, id) == TRUE

\* The unique index {user, targetType, targetId} of the Like collection
UniqueIndexAllows(u, ttype, id) == LikesBy(likes, u, ttype, id) = {}

\* Like.create({user, targetType, targetId}); a duplicate key throws and the
\* handler's catch passes the error to next(error)
TgLike(p) ==
    /\ pr[p].pc = "tgWrite"
    /\ pr[p].existing = 0
    /\ nextLikeId <= MaxLikes
    /\ IF UniqueIndexAllows(pr[p].user, pr[p].ttype, pr[p].id)
       THEN /\ likes' = likes \cup {[id |-> nextLikeId, user |-> pr[p].user,
                                     targetType |-> pr[p].ttype,
                                     targetId |-> pr[p].id]}
            /\ nextLikeId' = nextLikeId + 1
            /\ pr' = [pr EXCEPT ![p].pc = "tgCount"]
       ELSE /\ UNCHANGED <<likes, nextLikeId>>
            /\ pr' = [pr EXCEPT ![p] = Respond(pr[p], ErrorHandler("DuplicateKey"))]
    /\ UNCHANGED <<posts, comments, nextPostId, nextCommentId>>

\* Like.countDocuments({targetType, targetId}), then the response
TgCount(p) ==
    /\ pr[p].pc = "tgCount"
    /\ pr' = [pr EXCEPT ![p] =
                RespondWith(pr[p],
                            [NoResp EXCEPT
                               !.status = 200,
                               !.isLiked = (pr[p].existing = 0),
                               !.likeCount = CountLikes(pr[p].ttype, pr[p].id)])]
    /\ UNCHANGED store

\* ---------------------------------------------------------- Comment: create
\* router.post("/"): validateComment, Post.findById
CmFind(p, u, text, postId) ==
    /\ Ready(p)
    /\ LET r == [Request("createComment", u, "Comment", postId) EXCEPT
                   !.content = text] IN
       pr' = [pr EXCEPT ![p] =
                IF ~ValidateComment(text) THEN Respond(r, 400)
                ELSE IF PostById(postId) = {} THEN Respond(r, 404)
                ELSE [r EXCEPT !.pc = "cmCreate", !.content = Trim(text)]]
    /\ UNCHANGED store

\* Comment.create({text, post: postId, author, parent: null}) is executed
CmCreate(p) ==
    /\ pr[p].pc = "cmCreate"
    /\ nextCommentId <= MaxComments
    /\ LET doc == [id |-> nextCommentId, text |-> pr[p].content,
                   post |-> pr[p].id, author |-> pr[p].user, parent |-> 0]
       IN /\ comments' = comments \cup {doc}
          /\ nextCommentId' = nextCommentId + 1
          /\ pr' = [pr EXCEPT ![p] =
                      [@ EXCEPT !.pc = "cmRespond", !.doc = <<doc>>]]
    /\ UNCHANGED <<posts, likes, nextPostId, nextLikeId>>

\* comment.populate("author"), then res.status(201).json({data: comment})
CmRespond(p) ==
    /\ pr[p].pc = "cmRespond"
    /\ pr' = [pr EXCEPT ![p] =
                RespondWith(pr[p], [NoResp EXCEPT !.status = 201,
                                                  !.data = pr[p].doc])]
    /\ UNCHANGED store

\* ----------------------------------------------------------- Comment: reply
\* router.post("/:id/reply"): validateComment, Comment.findById of the parent
RpFind(p, u, text, parentId) ==
    /\ Ready(p)
    /\ LET r == [Request("createReply", u, "Comment", parentId) EXCEPT
                   !.content = text] IN
       pr' = [pr EXCEPT ![p] =
                IF ~ValidateComment(text) THEN Respond(r, 400)
                ELSE IF CommentById(parentId) = {} THEN Respond(r, 404)
                ELSE [r EXCEPT !.pc = "rpCreate", !.content = Trim(text),
                               !.doc = <<CHOOSE c \in CommentById(parentId) : TRUE>>]]
    /\ UNCHANGED store

\* Comment.create({text, post: parentComment.post, author, parent:
\* parentCommentId}) is executed
RpCreate(p) ==
    /\ pr[p].pc = "rpCreate"
    /\ nextCommentId <= MaxComments
    /\ LET doc == [id |-> nextCommentId, text |-> pr[p].content,
                   post |-> pr[p].doc[1].post, author |-> pr[p].user,
                   parent |-> pr[p].id]
       IN /\ comments' = comments \cup {doc}
          /\ nextCommentId' = nextCommentId + 1
          /\ pr' = [pr EXCEPT ![p] =
                      [@ EXCEPT !.pc = "rpRespond", !.doc = <<doc>>]]
    /\ UNCHANGED <<posts, likes, nextPostId, nextLikeId>>

\* reply.populate("author"), then res.status(201).json({data: reply})
RpRespond(p) ==
    /\ pr[p].pc = "rpRespond"
    /\ pr' = [pr EXCEPT ![p] =
                RespondWith(pr[p], [NoResp EXCEPT !.status = 201,
                                                  !.data = pr[p].doc])]
    /\ UNCHANGED store

\* ---------------------------------------------------------- Comment: delete
\* router.delete("/:id"): Comment.findById, the author check
DcFind(p, u, id) ==
    /\ Ready(p)
    /\ LET r == Request("deleteComment", u, "Comment", id) IN
       pr' = [pr EXCEPT ![p] =
                IF CommentById(id) = {} THEN Respond(r, 404)
                ELSE IF ~IsAuthor(CHOOSE c \in CommentById(id) : TRUE, u)
                THEN Respond(r, 403)
                ELSE [r EXCEPT !.pc = "dcRemove"]]
    /\ UNCHANGED store

\* Comment.deleteMany({$or: [{_id: id}, {parent: id}]})
DcRemove(p) ==
    /\ pr[p].pc = "dcRemove"
    /\ comments' = {c \in comments : c.id # pr[p].id /\ c.parent # pr[p].id}
    /\ pr' = [pr EXCEPT ![p].pc = "dcLikes"]
    /\ UNCHANGED <<posts, likes, nextPostId, nextCommentId, nextLikeId>>

\* (mutant) the comment delete also removes the Likes of the comments that
\* are gone
DcLikesWithReplies(p) ==
    /\ pr[p].pc = "dcLikes"
    /\ likes' = {l \in likes :
                   ~(l.targetType = "Comment"
                        /\ (l.targetId = pr[p].id \/ CommentById(l.targetId) = {}))}
    /\ pr' = [pr EXCEPT ![p].pc = "dcRespond"]
    /\ UNCHANGED <<posts, comments, nextPostId, nextCommentId, nextLikeId>>

\* Like.deleteMany({targetType: "Comment", targetId: id}) is executed by the
\* store; its result has not reached the handler yet
DcLikes(p) ==
    /\ pr[p].pc = "dcLikes"
    /\ likes' = likes \ LikesOn(likes, "Comment", pr[p].id)
    /\ pr' = [pr EXCEPT ![p].pc = "dcRespond"]
    /\ UNCHANGED <<posts, comments, nextPostId, nextCommentId, nextLikeId>>

\* The await of Like.deleteMany resumes: res.status(200).json(...)
DcRespond(p) ==
    /\ pr[p].pc = "dcRespond"
    /\ pr' = [pr EXCEPT ![p] = Respond(pr[p], 200)]
    /\ UNCHANGED store

\* ------------------------------------------------------------ Comment: list
\* Comment.find({post: postId, parent: null}).sort({createdAt: 1})
TopLevel(C, postId) == {c \in C : c.post = postId /\ c.parent = 0}
\* Comment.find({parent: comment._id}).sort({createdAt: 1})
RepliesOf(C, id) == {c \in C : c.parent = id}

\* The documents a listing of the post returns: its top-level comments and
\* their replies
Listed(C, postId) ==
    TopLevel(C, postId) \cup
    {c \in C : \E t \in TopLevel(C, postId) : c \in RepliesOf(C, t.id)}

ListItem(doc) == [comment |-> doc, stage |-> 0, likeCount |-> 0,
                  isLiked |-> FALSE, replies |-> <<>>]
ReplyItem(doc) == [comment |-> doc, stage |-> 0, likeCount |-> 0, isLiked |-> FALSE]

\* router.get("/:postId"): the top-level comments of the post
ListFind(p, u, postId) ==
    /\ Ready(p)
    /\ LET r == Request("listComments", u, "Comment", postId)
           top == SortAsc(TopLevel(comments, postId))
       IN pr' = [pr EXCEPT ![p] =
                   IF top = <<>> THEN Respond(r, 200)
                   ELSE [r EXCEPT !.pc = "listing",
                                  !.items = [i \in 1..Len(top) |-> ListItem(top[i])]]]
    /\ UNCHANGED store

\* the replies of the i-th comment
ListReplies(p, i) ==
    /\ pr[p].pc = "listing"
    /\ i \in 1..Len(pr[p].items)
    /\ pr[p].items[i].stage = 0
    /\ LET rs == SortAsc(RepliesOf(comments, pr[p].items[i].comment.id)) IN
       pr' = [pr EXCEPT ![p].items[i] =
                [@ EXCEPT !.stage = 1,
                          !.replies = [j \in 1..Len(rs) |-> ReplyItem(rs[j])]]]
    /\ UNCHANGED store

\* Like.countDocuments for the j-th reply of the i-th comment
ListReplyCount(p, i, j) ==
    /\ pr[p].pc = "listing"
    /\ i \in 1..Len(pr[p].items)
    /\ pr[p].items[i].stage = 1
    /\ j \in 1..Len(pr[p].items[i].replies)
    /\ pr[p].items[i].replies[j].stage = 0
    /\ pr' = [pr EXCEPT ![p].items[i].replies[j] =
                [@ EXCEPT !.stage = 1,
                          !.likeCount =
                             CountLikes("Comment",
                                        pr[p].items[i].replies[j].comment.id)]]
    /\ UNCHANGED store

\* Like.exists for the j-th reply of the i-th comment
ListReplyExists(p, i, j) ==
    /\ pr[p].pc = "listing"
    /\ i \in 1..Len(pr[p].items)
    /\ pr[p].items[i].stage = 1
    /\ j \in 1..Len(pr[p].items[i].replies)
    /\ pr[p].items[i].replies[j].stage = 1
    /\ pr' = [pr EXCEPT ![p].items[i].replies[j] =
                [@ EXCEPT !.stage = 2,
                          !.isLiked =
                             UserLiked(pr[p].user, "Comment",
                                       pr[p].items[i].replies[j].comment.id)]]
    /\ UNCHANGED store

\* Like.countDocuments for the i-th comment, once its replies are annotated
ListCount(p, i) ==
    /\ pr[p].pc = "listing"
    /\ i \in 1..Len(pr[p].items)
    /\ pr[p].items[i].stage = 1
    /\ \A j \in 1..Len(pr[p].items[i].replies) : pr[p].items[i].replies[j].stage = 2
    /\ pr' = [pr EXCEPT ![p].items[i] =
                [@ EXCEPT !.stage = 2,
                          !.likeCount = CountLikes("Comment",
                                                  pr[p].items[i].comment.id)]]
    /\ UNCHANGED store

\* Like.exists for the i-th comment; the response follows the last one
ListExists(p, i) ==
    /\ pr[p].pc = "listing"
    /\ i \in 1..Len(pr[p].items)
    /\ pr[p].items[i].stage = 2
    /\ LET items == [pr[p].items EXCEPT ![i] =
                       [@ EXCEPT !.stage = 3,
                                 !.isLiked = UserLiked(pr[p].user, "Comment",
                                                       pr[p].items[i].comment.id)]]
       IN pr' = [pr EXCEPT ![p] =
                   IF \A k \in 1..Len(items) : items[k].stage = 3
                   THEN RespondWith(pr[p], [NoResp EXCEPT !.status = 200,
                                                          !.data = items])
                   ELSE [@ EXCEPT !.items = items]]
    /\ UNCHANGED store

\* ---------------------------------------------------------------- observers
\* What a client that issues one request after the other has seen: the request
\* before the current one, and the collections as they were when that request
\* and the current one were issued.
Snapshot == [posts |-> posts, comments |-> comments, likes |-> likes]

Summary(r) == [op |-> r.op, user |-> r.user, ttype |-> r.ttype, id |-> r.id,
               status |-> r.resp.status, isLiked |-> r.resp.isLiked,
               likeCount |-> r.resp.likeCount]

NoSnapshot == [posts |-> {}, comments |-> {}, likes |-> {}]

\* req.body before the validation chain has sanitised it
NoPayload == [content |-> <<>>, privacy |-> "none"]

ObserveStart(p) ==
    /\ hist' = [prev |-> Summary(pr[p]), pre0 |-> hist.pre1, pre1 |-> Snapshot,
                sent |-> hist.sent, probe |-> hist.probe]
    /\ UNCHANGED deletedOK

\* The body of the request that is issued in this step, as the client sent it
ObservePayload(content, privacy) ==
    /\ hist' = [hist EXCEPT !.sent = [content |-> content, privacy |-> privacy]]
    /\ UNCHANGED deletedOK

\* A listing is issued by p in this step: none of its like queries has run
ObserveQuiet(p) ==
    /\ hist' = [hist EXCEPT !.probe = {e \in @ : e.by # p}]
    /\ UNCHANGED deletedOK

\* p's listing runs the Like.countDocuments of its item <<i, j>> in this step
\* (j = 0: the i-th post or comment; else the j-th reply of the i-th comment):
\* the observer keeps the Like id counter at that moment
ObserveCount(p, i, j) ==
    /\ hist' = [hist EXCEPT !.probe =
                   {e \in @ : ~(e.by = p /\ e.item = <<i, j>>)} \cup
                   {[by |-> p, item |-> <<i, j>>, mark |-> nextLikeId, found |-> 0]}]
    /\ UNCHANGED deletedOK

\* p's listing runs the Like.exists of its item <<i, j>>, the document id of
\* type ttype, in this step: the observer keeps the id of the requester's
\* Like on it (0: none)
ObserveExists(p, i, j, ttype, id) ==
    /\ LET mine == LikesBy(likes, pr[p].user, ttype, id) IN
       hist' = [hist EXCEPT !.probe =
                  {e \in @ : ~(e.by = p /\ e.item = <<i, j>>)} \cup
                  {[e EXCEPT !.found = IF mine = {} THEN 0
                                       ELSE Min({l.id : l \in mine})] :
                      e \in {f \in @ : f.by = p /\ f.item = <<i, j>>}}]
    /\ UNCHANGED deletedOK

\* A request without a body the observer keeps
ObserveNoPayload ==
    /\ hist' = [hist EXCEPT !.sent = NoPayload]
    /\ UNCHANGED deletedOK

\* The Like.deleteMany of p's post delete is executed in this step: the
\* observer keeps the Like id counter at that moment
ObserveCascade(p) ==
    /\ deletedOK' = {d \in deletedOK : d.by # p} \cup
                       {[id |-> pr[p].id, mark |-> nextLikeId, ret |-> 0, by |-> p]}
    /\ UNCHANGED hist

\* p's post delete answers 200 in this step: the observer keeps the Like id
\* counter at the response
ObserveDelete(p) ==
    /\ deletedOK' = {d \in deletedOK : d.by # p} \cup
                       {[d EXCEPT !.ret = nextLikeId, !.by = "returned"] :
                           d \in {e \in deletedOK : e.by = p}}
    /\ UNCHANGED hist

Unobserved == UNCHANGED <<hist, deletedOK>>

\* ------------------------------------------------------------ initial state
Init ==
    /\ posts = {}
    /\ comments = {}
    /\ likes = {}
    /\ nextPostId = 1
    /\ nextCommentId = 1
    /\ nextLikeId = 1
    /\ pr = [p \in Procs |-> Idle]
    /\ hist = [prev |-> Summary(Idle), pre0 |-> NoSnapshot, pre1 |-> NoSnapshot,
               sent |-> NoPayload, probe |-> {}]
    /\ deletedOK = {}

\* ------------------------------------------------------------------- feed
\* One client creating, updating, deleting and listing posts (text posts with
\* one valid and one blank content; an update changes the privacy, once per
\* post).
FeedContents == { <<" ">>, <<" ", "a", " ">> }

FeedNext ==
    \E p \in SeqProcs :
        \/ \E u \in Users, content \in FeedContents, privacy \in Privacies :
              CreatePost(p, u, content, privacy, "none") /\ Unobserved
        \/ CrCreate(p) /\ Unobserved
        \/ CrRespond(p) /\ Unobserved
        \/ \E u \in Users, id \in PostIds, privacy \in {"public", "private"} :
              UpdFind(p, u, id, <<" ", "a", " ">>, privacy) /\ Unobserved
        \/ \E lenient \in BOOLEAN :
              (\A q \in PostById(pr[p].id) : q.updatedAt = 0)
                  /\ UpdSave(p, lenient) /\ Unobserved
        \/ UpdRespond(p) /\ Unobserved
        \/ \E u \in Users, id \in PostIds : DelFind(p, u, id) /\ Unobserved
        \/ DelPost(p) /\ Unobserved
        \/ DelLikes(p) /\ Unobserved
        \/ DelRespond(p) /\ Unobserved
        \/ \E u \in Users, page \in 0..MaxPage, limit \in 0..MaxLimit :
              FeedFind(p, u, page, limit) /\ Unobserved
        \/ \E i \in 1..MaxPosts : FeedCount(p, i) /\ Unobserved
        \/ \E i \in 1..MaxPosts : FeedExists(p, i) /\ Unobserved
        \/ FeedTotal(p) /\ Unobserved

FeedSpec == Init /\ [][FeedNext]_vars

\* ---------------------------------------------------------------- threads
\* One client issuing one request after the other: user A writes posts,
\* comments and replies, either user deletes comments and lists them.  The
\* observer keeps the collections as they were when the current request was
\* issued.
ThreadTexts == { <<" ">>, <<"a", " ">> }

ObserveIssue(p) ==
    /\ hist' = [hist EXCEPT !.pre1 = Snapshot]
    /\ UNCHANGED deletedOK

ThreadNext ==
    \E p \in SeqProcs :
        \/ \E file \in Files :
              nextPostId = 1 /\ CreatePost(p, "A", <<"a">>, "none", file)
                             /\ ObserveIssue(p)
        \/ \E uploadOk \in BOOLEAN : CrUpload(p, uploadOk) /\ Unobserved
        \/ CrCreate(p) /\ Unobserved
        \/ CrRespond(p) /\ Unobserved
        \/ \E text \in ThreadTexts, id \in PostIds :
              CmFind(p, "A", text, id) /\ ObserveIssue(p)
        \/ CmCreate(p) /\ Unobserved
        \/ CmRespond(p) /\ Unobserved
        \/ \E text \in ThreadTexts, id \in CommentIds :
              RpFind(p, "A", text, id) /\ ObserveIssue(p)
        \/ RpCreate(p) /\ Unobserved
        \/ RpRespond(p) /\ Unobserved
        \/ \E u \in Users, id \in CommentIds : DcFind(p, u, id) /\ ObserveIssue(p)
        \/ DcRemove(p) /\ Unobserved
        \/ DcLikes(p) /\ Unobserved
        \/ DcRespond(p) /\ Unobserved
        \/ \E u \in Users, id \in PostIds : ListFind(p, u, id) /\ ObserveIssue(p)
        \/ \E i \in CommentIds : ListReplies(p, i) /\ Unobserved
        \/ \E i \in CommentIds, j \in CommentIds :
              ListReplyCount(p, i, j) /\ Unobserved
        \/ \E i \in CommentIds, j \in CommentIds :
              ListReplyExists(p, i, j) /\ Unobserved
        \/ \E i \in CommentIds : ListCount(p, i) /\ Unobserved
        \/ \E i \in CommentIds : ListExists(p, i) /\ Unobserved

ThreadSpec == Init /\ [][ThreadNext]_vars

\* ------------------------------------------------------------------ owners
\* One client issuing one request after the other: both users write posts and
\* first comments and like them, and both try to update and delete them.
AuthContents == { <<" ">>, <<"a">> }

AuthNext ==
    \E p \in SeqProcs :
        \/ \E u \in Users :
              nextPostId = 1 /\ CreatePost(p, u, <<"a">>, "none", "none")
                             /\ Unobserved
        \/ CrCreate(p) /\ Unobserved
        \/ CrRespond(p) /\ Unobserved
        \/ \E u \in Users, id \in PostIds, content \in AuthContents,
              privacy \in Privacies :
              UpdFind(p, u, id, content, privacy) /\ Unobserved
        \/ \E lenient \in BOOLEAN : UpdSave(p, lenient) /\ Unobserved
        \/ UpdRespond(p) /\ Unobserved
        \/ \E u \in Users, id \in PostIds : DelFind(p, u, id) /\ Unobserved
        \/ DelPost(p) /\ Unobserved
        \/ DelLikes(p) /\ Unobserved
        \/ DelRespond(p) /\ Unobserved
        \/ \E u \in Users :
              nextCommentId = 1 /\ CmFind(p, u, <<"a">>, 1) /\ Unobserved
        \/ CmCreate(p) /\ Unobserved
        \/ CmRespond(p) /\ Unobserved
        \/ \E u \in Users, id \in CommentIds : DcFind(p, u, id) /\ Unobserved
        \/ DcRemove(p) /\ Unobserved
        \/ DcLikes(p) /\ Unobserved
        \/ DcRespond(p) /\ Unobserved
        \/ TgFind(p, "B", "Post", 1) /\ Unobserved
        \/ TgFind(p, "B", "Comment", 1) /\ Unobserved
        \/ TgLookup(p) /\ Unobserved
        \/ TgUnlike(p) /\ Unobserved
        \/ TgLike(p) /\ Unobserved
        \/ TgCount(p) /\ Unobserved

AuthSpec == Init /\ [][AuthNext]_vars

\* ---------------------------------------------------------------- cascades
\* One client issuing one request after the other: user A writes the first
\* post, its first comment and replies to it, both users like them, A deletes
\* comments and the post, and either user lists the comments.  The observer
\* keeps the collections as they were when the current request was issued.
CascadeNext ==
    \E p \in SeqProcs :
        \/ nextPostId = 1 /\ CreatePost(p, "A", <<"a">>, "none", "none")
                          /\ ObserveIssue(p)
        \/ CrCreate(p) /\ Unobserved
        \/ CrRespond(p) /\ Unobserved
        \/ nextCommentId = 1 /\ CmFind(p, "A", <<"a">>, 1) /\ ObserveIssue(p)
        \/ CmCreate(p) /\ Unobserved
        \/ CmRespond(p) /\ Unobserved
        \/ RpFind(p, "A", <<"a">>, 1) /\ ObserveIssue(p)
        \/ RpCreate(p) /\ Unobserved
        \/ RpRespond(p) /\ Unobserved
        \/ TgFind(p, "B", "Post", 1) /\ ObserveIssue(p)
        \/ \E id \in CommentIds : TgFind(p, "B", "Comment", id) /\ ObserveIssue(p)
        \/ TgLookup(p) /\ Unobserved
        \/ TgUnlike(p) /\ Unobserved
        \/ TgLike(p) /\ Unobserved
        \/ TgCount(p) /\ Unobserved
        \/ \E id \in CommentIds : DcFind(p, "A", id) /\ ObserveIssue(p)
        \/ DcRemove(p) /\ Unobserved
        \/ DcLikes(p) /\ Unobserved
        \/ DcRespond(p) /\ Unobserved
        \/ DelFind(p, "A", 1) /\ ObserveIssue(p)
        \/ DelPost(p) /\ Unobserved
        \/ DelLikes(p) /\ Unobserved
        \/ DelRespond(p) /\ Unobserved
        \/ ListFind(p, "B", 1) /\ ObserveIssue(p)
        \/ \E i \in CommentIds : ListReplies(p, i) /\ Unobserved
        \/ \E i \in CommentIds, j \in CommentIds :
              ListReplyCount(p, i, j) /\ Unobserved
        \/ \E i \in CommentIds, j \in CommentIds :
              ListReplyExists(p, i, j) /\ Unobserved
        \/ \E i \in CommentIds : ListCount(p, i) /\ Unobserved
        \/ \E i \in CommentIds : ListExists(p, i) /\ Unobserved

CascadeSpec == Init /\ [][CascadeNext]_vars

\* ----------------------------------------------------------------- updates
\* One client issuing one request after the other: either user writes the
\* first post and the first comment, and both update and delete them.  The
\* observer keeps the body of an update as it was sent.
UpdContents == { <<" ">>, <<"a">>, <<" ", "b", " ">> }

UpdateNext ==
    \E p \in SeqProcs :
        \/ \E u \in Users, privacy \in {"none", "private"} :
              nextPostId = 1 /\ CreatePost(p, u, <<"a">>, privacy, "none")
                             /\ ObserveNoPayload
        \/ CrCreate(p) /\ Unobserved
        \/ CrRespond(p) /\ Unobserved
        \/ \E u \in Users, id \in PostIds, content \in UpdContents,
              privacy \in Privacies :
              UpdFind(p, u, id, content, privacy)
                  /\ ObservePayload(content, privacy)
        \/ \E lenient \in BOOLEAN : UpdSave(p, lenient) /\ Unobserved
        \/ UpdRespond(p) /\ Unobserved
        \/ \E u \in Users : DelFind(p, u, 1) /\ ObserveNoPayload
        \/ DelPost(p) /\ Unobserved
        \/ DelLikes(p) /\ Unobserved
        \/ DelRespond(p) /\ Unobserved
        \/ \E u \in Users :
              nextCommentId = 1 /\ CmFind(p, u, <<"a">>, 1) /\ ObserveNoPayload
        \/ CmCreate(p) /\ Unobserved
        \/ CmRespond(p) /\ Unobserved
        \/ \E u \in Users : DcFind(p, u, 1) /\ ObserveNoPayload
        \/ DcRemove(p) /\ Unobserved
        \/ DcLikes(p) /\ Unobserved
        \/ DcRespond(p) /\ Unobserved

UpdateSpec == Init /\ [][UpdateNext]_vars

\* ----------------------------------------------------------------- toggles
\* One client issuing one request after the other: user A writes posts and a
\* first comment, both users toggle their likes.  The observer keeps the
\* previous request and the collections as they were at both requests.
ToggleNext ==
    \E p \in SeqProcs :
        \/ nextPostId = 1 /\ CreatePost(p, "A", <<"a">>, "none", "none")
                          /\ ObserveStart(p)
        \/ CrCreate(p) /\ Unobserved
        \/ CrRespond(p) /\ Unobserved
        \/ nextCommentId = 1 /\ CmFind(p, "A", <<"a">>, 1) /\ ObserveStart(p)
        \/ CmCreate(p) /\ Unobserved
        \/ CmRespond(p) /\ Unobserved
        \/ \E u \in Users : TgFind(p, u, "Post", 1) /\ ObserveStart(p)
        \/ \E u \in Users : TgFind(p, u, "Comment", 1) /\ ObserveStart(p)
        \/ TgLookup(p) /\ Unobserved
        \/ TgUnlike(p) /\ Unobserved
        \/ TgLike(p) /\ Unobserved
        \/ TgCount(p) /\ Unobserved

ToggleSpec == Init /\ [][ToggleNext]_vars

\* ---------------------------------------------------------------- listings
\* Requests in flight together: on one connection user A writes the first
\* post, its first comment and a reply to it, and user B then lists the feed
\* and the comments; on the other connection both users toggle likes on the
\* three of them.  The observer keeps, for every item of a listing, the Like
\* id counter at its count query and the requester's Like at its existence
\* query.
Listers == {"p1"}
Likers == {"p2"}

ListingNext ==
    \/ \E p \in Listers :
        \/ nextPostId = 1 /\ CreatePost(p, "A", <<"a">>, "none", "none")
                          /\ Unobserved
        \/ CrCreate(p) /\ Unobserved
        \/ CrRespond(p) /\ Unobserved
        \/ nextCommentId = 1 /\ CmFind(p, "A", <<"a">>, 1) /\ Unobserved
        \/ CmCreate(p) /\ Unobserved
        \/ CmRespond(p) /\ Unobserved
        \/ nextCommentId = 2 /\ RpFind(p, "A", <<"a">>, 1) /\ Unobserved
        \/ RpCreate(p) /\ Unobserved
        \/ RpRespond(p) /\ Unobserved
        \/ nextCommentId > 2 /\ FeedFind(p, "B", 0, 0) /\ ObserveQuiet(p)
        \/ FeedCount(p, 1) /\ ObserveCount(p, 1, 0)
        \/ FeedExists(p, 1)
              /\ ObserveExists(p, 1, 0, "Post", pr[p].items[1].post.id)
        \/ FeedTotal(p) /\ Unobserved
        \/ nextCommentId > 2 /\ ListFind(p, "B", 1) /\ ObserveQuiet(p)
        \/ ListReplies(p, 1) /\ Unobserved
        \/ ListReplyCount(p, 1, 1) /\ ObserveCount(p, 1, 1)
        \/ ListReplyExists(p, 1, 1)
              /\ ObserveExists(p, 1, 1, "Comment",
                               pr[p].items[1].replies[1].comment.id)
        \/ ListCount(p, 1) /\ ObserveCount(p, 1, 0)
        \/ ListExists(p, 1)
              /\ ObserveExists(p, 1, 0, "Comment", pr[p].items[1].comment.id)
    \/ \E p \in Likers :
        \/ \E u \in Users : TgFind(p, u, "Post", 1) /\ Unobserved
        \/ \E u \in Users, id \in 1..2 : TgFind(p, u, "Comment", id) /\ Unobserved
        \/ TgLookup(p) /\ Unobserved
        \/ TgUnlike(p) /\ Unobserved
        \/ TgLike(p) /\ Unobserved
        \/ TgCount(p) /\ Unobserved

ListingSpec == Init /\ [][ListingNext]_vars

\* -------------------------------------------------------------- concurrency
\* Requests in flight together: user A writes the first post and its first
\* comment on one connection and deletes posts on either; both users toggle
\* their likes on either.  The observer keeps the post deletes that were
\* answered 200.
Writers == {"p1"}

Next ==
    \E p \in Procs :
        \/ p \in Writers /\ nextPostId = 1
              /\ CreatePost(p, "A", <<"a">>, "none", "none") /\ Unobserved
        \/ CrCreate(p) /\ Unobserved
        \/ CrRespond(p) /\ Unobserved
        \/ p \in Writers /\ nextCommentId = 1
              /\ CmFind(p, "A", <<"a">>, 1) /\ Unobserved
        \/ CmCreate(p) /\ Unobserved
        \/ CmRespond(p) /\ Unobserved
        \/ \E u \in Users : DelFind(p, u, 1) /\ Unobserved
        \/ DelPost(p) /\ Unobserved
        \/ DelLikes(p) /\ ObserveCascade(p)
        \/ DelRespond(p) /\ ObserveDelete(p)
        \/ \E u \in Users : TgFind(p, u, "Post", 1) /\ Unobserved
        \/ \E u \in Users : TgFind(p, u, "Comment", 1) /\ Unobserved
        \/ TgLookup(p) /\ Unobserved
        \/ TgUnlike(p) /\ Unobserved
        \/ TgLike(p) /\ Unobserved
        \/ TgCount(p) /\ Unobserved

Spec == Init /\ [][Next]_vars

\* ------------------------------------------------------------------ claims
FeedDone(p) == pr[p].op = "feed" /\ pr[p].pc = "done" /\ pr[p].resp.status = 200

\* C1: the feed List response for requester r contains only posts whose
\* privacy is public or whose author is r, as returned and as stored: a
\* private post is never returned to a requester who is not its author.
C1_FeedHidesPrivate ==
    \A p \in Procs :
        FeedDone(p) =>
            \A i \in 1..Len(pr[p].resp.data) :
                LET doc == pr[p].resp.data[i].post IN
                /\ doc.privacy = "public" \/ doc.author = pr[p].user
                /\ \A q \in posts :
                      q.id = doc.id => q.privacy = "public" \/ q.author = pr[p].user

\* C1 witness: a feed was answered with a post while the store holds a
\* private post of another author.
C1_Witness ==
    \E p \in Procs :
        /\ FeedDone(p)
        /\ Len(pr[p].resp.data) >= 1
        /\ \E q \in posts : q.privacy = "private" /\ q.author # pr[p].user

\* C8: with page >= 1 and limit >= 1 and no concurrent writes, the feed
\* returns exactly the posts at positions (page-1)*limit .. page*limit-1 of
\* the requester's eligible posts, newest first, with pagination.total = N and
\* pagination.pages = ceil(N/limit).
C8_Pagination ==
    \A p \in Procs :
        FeedDone(p) =>
            LET r == pr[p].resp
                E == {q \in posts : q.privacy = "public" \/ q.author = pr[p].user}
                N == Cardinality(E)
                skip == (r.page - 1) * r.limit
                rest == IF N - skip > 0 THEN N - skip ELSE 0
            IN /\ r.page >= 1 /\ r.limit >= 1
               /\ Len(r.data) = (IF r.limit < rest THEN r.limit ELSE rest)
               /\ \A i \in 1..Len(r.data) :
                     /\ r.data[i].post \in E
                     /\ Cardinality({q \in E : q.id > r.data[i].post.id})
                           = skip + i - 1
               /\ r.total = N
               /\ r.pages * r.limit >= N
               /\ (r.pages - 1) * r.limit < N

\* C8 witness: a second page that holds a post, of a feed of two pages.
C8_Witness ==
    \E p \in Procs :
        /\ FeedDone(p)
        /\ pr[p].resp.page = 2
        /\ Len(pr[p].resp.data) >= 1
        /\ pr[p].resp.pages = 2
        /\ pr[p].resp.total = 2

\* p issues a request in this step
Issues(p) == Ready(p) /\ pr'[p] # pr[p]

\* p's request of this step is an update or delete of an existing post, or a
\* delete of an existing comment, by a requester who is not its author
ByNonAuthor(p) ==
    /\ Issues(p)
    /\ \/ /\ pr'[p].op \in {"updatePost", "deletePost"}
          /\ \E q \in posts : q.id = pr'[p].id /\ q.author # pr'[p].user
       \/ /\ pr'[p].op = "deleteComment"
          /\ \E c \in comments : c.id = pr'[p].id /\ c.author # pr'[p].user

\* C2 as stated: an update or delete of an existing post or comment by a
\* requester who is not its author fails with 403 whatever the payload is, and
\* the post, comment and like records are left unchanged.
C2_AlwaysForbidden ==
    [][\A p \in Procs :
          ByNonAuthor(p) =>
              /\ pr'[p].pc = "done"
              /\ pr'[p].resp.status = 403
              /\ UNCHANGED <<posts, comments, likes>>]_vars

\* C2 as amended: post Delete and comment Delete by a non-author fail with
\* 403; post Update by a non-author fails with 400 when the payload is invalid
\* (validation runs before the ownership check) and with 403 otherwise; in
\* every case the post, comment and like records are left unchanged.
C2_NonAuthorRefused ==
    [][\A p \in Procs :
          ByNonAuthor(p) =>
              /\ pr'[p].pc = "done"
              /\ pr'[p].resp.status =
                    (IF pr'[p].op = "updatePost"
                        /\ ~( /\ Trim(pr'[p].content) # <<>>
                              /\ pr'[p].privacy \in {"none", "public", "private"})
                     THEN 400 ELSE 403)
              /\ UNCHANGED <<posts, comments, likes>>]_vars

\* C2 witness: a valid update by a non-author of an existing post was answered
\* 403 while the store holds a comment and a like.
C2_Witness ==
    \E p \in Procs :
        /\ pr[p].pc = "done"
        /\ pr[p].op = "updatePost"
        /\ pr[p].resp.status = 403
        /\ \E q \in posts : q.id = pr[p].id /\ q.author # pr[p].user
        /\ comments # {}
        /\ likes # {}

\* C3: the store holds at most one Like record per (user, targetType,
\* targetId), also when toggle-like requests interleave.
C3_LikeUnique ==
    \A l1 \in likes, l2 \in likes :
        (l1.user = l2.user /\ l1.targetType = l2.targetType
            /\ l1.targetId = l2.targetId) => l1 = l2

\* C3 witness: two toggle-like requests of one user on one target have both
\* found no Like, one has inserted its Like and the other is about to insert.
C3_Witness ==
    \E p \in Procs, q \in Procs :
        /\ p # q
        /\ pr[p].pc = "tgWrite" /\ pr[p].existing = 0
        /\ pr[q].pc = "tgCount" /\ pr[q].existing = 0
        /\ pr[p].user = pr[q].user
        /\ pr[p].ttype = pr[q].ttype
        /\ pr[p].id = pr[q].id
        /\ \E l \in likes : l.user = pr[p].user /\ l.targetType = pr[p].ttype
                            /\ l.targetId = pr[p].id

\* C4: a toggle-like request that loses the insert race ends as a no-op or an
\* idempotent success, not as an error outcome: a toggle-like on an existing
\* target is always answered 200.
C4_LoserSucceeds ==
    \A p \in Procs :
        (pr[p].op = "toggleLike" /\ pr[p].pc = "done")
            => pr[p].resp.status \in {200, 404}

\* C5: for a target that user u does not like, with no other request in
\* between, one Toggle returns isLiked = true and the previous count plus 1,
\* and a second Toggle in succession returns isLiked = false and the count
\* before the first toggle, leaving the Like records as before the two.
ToggledOk(r) == r.op = "toggleLike" /\ r.pc = "done" /\ r.resp.status = 200

C5_ToggleTwice ==
    \A p \in SeqProcs :
        LET r == pr[p]
            before0 == hist.pre0.likes
            before1 == hist.pre1.likes
        IN /\ (ToggledOk(r) /\ LikesBy(before1, r.user, r.ttype, r.id) = {})
                => /\ r.resp.isLiked
                   /\ r.resp.likeCount
                         = Cardinality(LikesOn(before1, r.ttype, r.id)) + 1
           /\ ( /\ ToggledOk(r)
                /\ hist.prev.op = "toggleLike" /\ hist.prev.status = 200
                /\ hist.prev.user = r.user /\ hist.prev.ttype = r.ttype
                /\ hist.prev.id = r.id
                /\ LikesBy(before0, r.user, r.ttype, r.id) = {} )
                => /\ ~r.resp.isLiked
                   /\ r.resp.likeCount
                         = Cardinality(LikesOn(before0, r.ttype, r.id))
                   /\ likes = before0

\* C5 witness: the second of two toggles in succession was answered, on a
\* target that another user likes.
C5_Witness ==
    \E p \in SeqProcs :
        /\ ToggledOk(pr[p])
        /\ hist.prev.op = "toggleLike" /\ hist.prev.status = 200
        /\ hist.prev.isLiked
        /\ hist.prev.user = pr[p].user /\ hist.prev.ttype = pr[p].ttype
        /\ hist.prev.id = pr[p].id
        /\ ~pr[p].resp.isLiked
        /\ pr[p].resp.likeCount = 1

\* The post deletes that were answered 200
Returned == {d \in deletedOK : d.by = "returned"}

\* C6 as stated: once a Delete of post P has returned success, the store
\* contains neither P nor any Like on P, in every interleaving.
C6_NoLikeAfterDelete ==
    \A d \in Returned :
        /\ PostById(d.id) = {}
        /\ LikesOn(likes, "Post", d.id) = {}

\* C6 as amended: once a Delete of post P has returned success, the store
\* never again contains P, nor any Like on P that was in the store when the
\* delete's Like.deleteMany was executed (a Like on P in the store was
\* inserted after that, before or after the delete returned, by a toggle-like
\* request that had passed its existence check before the post was removed).
C6_CascadeAtReturn ==
    \A d \in Returned :
        /\ PostById(d.id) = {}
        /\ \A l \in LikesOn(likes, "Post", d.id) : l.id >= d.mark

\* C6 witness: a post was deleted with success after Likes had been inserted,
\* and a Like on it, inserted between the delete's Like.deleteMany and its
\* response, is in the store.
C6_Witness ==
    \E d \in Returned :
        /\ d.mark > 1
        /\ \E l \in LikesOn(likes, "Post", d.id) : l.id >= d.mark /\ l.id < d.ret

\* C7: deleting a top-level comment C by its author removes C and every
\* comment whose parent is C from the listing of the post; deleting a reply R
\* by its author removes only R, and every other comment of the post is still
\* listed unchanged.
C7_DeleteFrame ==
    \A p \in SeqProcs :
        (pr[p].op = "deleteComment" /\ pr[p].pc = "done"
            /\ pr[p].resp.status = 200) =>
            \A t \in hist.pre1.comments :
                t.id = pr[p].id =>
                    IF t.parent = 0
                    THEN \A c \in Listed(comments, t.post) :
                            c.id # t.id /\ c.parent # t.id
                    ELSE /\ comments = hist.pre1.comments \ {t}
                         /\ Listed(comments, t.post)
                               = Listed(hist.pre1.comments, t.post) \ {t}

\* C9 as stated: the Toggle performs no existence check on its target, so no
\* toggle-like request is refused for a target that does not exist.
C9_NoExistenceCheck ==
    \A p \in Procs :
        (pr[p].op = "toggleLike" /\ pr[p].pc = "done")
            => pr[p].resp.status # 404

\* C9 as amended: the Toggle checks that its target exists: a Toggle with a
\* targetId that resolves to no Post (or no Comment) is answered 404 and
\* inserts no Like.
C9_MissingTargetRefused ==
    [][\A p \in Procs :
          ( /\ Issues(p)
            /\ pr'[p].op = "toggleLike"
            /\ IF pr'[p].ttype = "Post"
               THEN \A q \in posts : q.id # pr'[p].id
               ELSE \A c \in comments : c.id # pr'[p].id )
          => /\ pr'[p].pc = "done"
             /\ pr'[p].resp.status = 404
             /\ likes' = likes]_vars

\* C9 witness: a toggle-like on a post that had been deleted was answered 404.
C9_Witness ==
    \E p \in Procs :
        /\ pr[p].op = "toggleLike" /\ pr[p].pc = "done"
        /\ pr[p].resp.status = 404
        /\ pr[p].ttype = "Post"
        /\ pr[p].id < nextPostId

\* C10: every stored comment with a non-null parent has a parent that is a
\* top-level comment: no reply has a reply.
C10_DepthTwo ==
    \A c \in comments :
        c.parent # 0 => \A d \in comments : d.id = c.parent => d.parent = 0

\* p's update is saved in this step; it is answered 200 next
UpdateSaved(p) ==
    /\ pr[p].op = "updatePost" /\ pr[p].pc = "updSave"
    /\ pr'[p].pc = "updRespond"

\* No step changes the author of a stored post or comment
AuthorsKept ==
    /\ \A q \in posts, q2 \in posts' : q2.id = q.id => q2.author = q.author
    /\ \A c \in comments, c2 \in comments' : c2.id = c.id => c2.author = c.author

\* C11 as stated: a successful post Update by the author replaces the content
\* with the content as it was supplied, changes the privacy only when a
\* privacy value is supplied and leaves the author; no operation changes the
\* author of a stored post or comment.
C11_ContentAsSupplied ==
    [][/\ \A p \in SeqProcs :
             UpdateSaved(p) =>
                 \E q \in posts, q2 \in posts' :
                     /\ q.id = pr[p].id /\ q2.id = q.id
                     /\ q.author = pr[p].user
                     /\ q2.content = hist.sent.content
                     /\ q2.privacy = (IF hist.sent.privacy = "none"
                                      THEN q.privacy ELSE hist.sent.privacy)
                     /\ q2.author = q.author
       /\ AuthorsKept]_vars

\* C11 as amended: a successful post Update by the author replaces the content
\* with the supplied content trimmed of its leading and trailing whitespace,
\* changes the privacy only when a privacy value is supplied and leaves the
\* author; no operation changes the author of a stored post or comment.
C11_UpdateFrame ==
    [][/\ \A p \in SeqProcs :
             UpdateSaved(p) =>
                 \E q \in posts, q2 \in posts' :
                     /\ q.id = pr[p].id /\ q2.id = q.id
                     /\ q.author = pr[p].user
                     /\ q2.content = Trim(hist.sent.content)
                     /\ q2.privacy = (IF hist.sent.privacy = "none"
                                      THEN q.privacy ELSE hist.sent.privacy)
                     /\ q2.author = q.author
       /\ AuthorsKept]_vars

\* C11 witness: an update sent with padded content and no privacy was answered
\* 200 for a private post, which is stored private with the trimmed content
\* and a refreshed updatedAt, while the store holds a comment.
C11_Witness ==
    \E p \in SeqProcs :
        /\ pr[p].op = "updatePost" /\ pr[p].pc = "done"
        /\ pr[p].resp.status = 200
        /\ hist.sent = [content |-> <<" ", "b", " ">>, privacy |-> "none"]
        /\ \E q \in posts : /\ q.id = pr[p].id
                             /\ q.privacy = "private"
                             /\ q.content = <<"b">>
                             /\ q.updatedAt = 1
        /\ comments # {}

\* The comment delete of process p was answered 200
CommentDeleted(p) ==
    pr[p].op = "deleteComment" /\ pr[p].pc = "done" /\ pr[p].resp.status = 200

\* C12: deleting comment C deletes exactly the Likes with targetType=Comment
\* and targetId=C; every Like on one of C's deleted replies and every Like on
\* any other target is left in the store unchanged.
C12_OnlyOwnLikes ==
    \A p \in SeqProcs :
        CommentDeleted(p) =>
            likes = {l \in hist.pre1.likes :
                        ~(l.targetType = "Comment" /\ l.targetId = pr[p].id)}

\* C12 witness: a comment that had a Like and a reply with a Like was deleted;
\* the reply is gone and the Like on the reply is still stored.
C12_Witness ==
    \E p \in SeqProcs :
        /\ CommentDeleted(p)
        /\ \E l \in hist.pre1.likes :
               l.targetType = "Comment" /\ l.targetId = pr[p].id
        /\ \E c \in hist.pre1.comments :
               /\ c.parent = pr[p].id
               /\ c \notin comments
               /\ \E l \in likes : l.targetType = "Comment" /\ l.targetId = c.id

\* C13: deleting post P leaves every Comment whose post is P and every Like
\* on a comment in the store unchanged, and a listing of the comments of P
\* after the delete returns the same comments and replies as before it.
C13_CommentsSurvive ==
    \A p \in SeqProcs :
        /\ (pr[p].op = "deletePost" /\ pr[p].pc = "done"
                /\ pr[p].resp.status = 200) =>
               /\ comments = hist.pre1.comments
               /\ {l \in likes : l.targetType = "Comment"}
                     = {l \in hist.pre1.likes : l.targetType = "Comment"}
               /\ Listed(comments, pr[p].id) = Listed(hist.pre1.comments, pr[p].id)
        /\ (pr[p].op = "listComments" /\ pr[p].pc = "done"
                /\ pr[p].resp.status = 200) =>
               LET data == pr[p].resp.data IN
               /\ {data[i].comment : i \in 1..Len(data)}
                     = TopLevel(comments, pr[p].id)
               /\ \A i \in 1..Len(data) :
                     {data[i].replies[j].comment : j \in 1..Len(data[i].replies)}
                        = RepliesOf(comments, data[i].comment.id)

\* C13 witness: the comments of a deleted post were listed: a comment with a
\* Like and a reply, with the Like on the comment still in the store.
C13_Witness ==
    \E p \in SeqProcs :
        /\ pr[p].op = "listComments" /\ pr[p].pc = "done"
        /\ pr[p].resp.status = 200
        /\ nextPostId > pr[p].id /\ PostById(pr[p].id) = {}
        /\ Len(pr[p].resp.data) >= 1
        /\ Len(pr[p].resp.data[1].replies) >= 1
        /\ pr[p].resp.data[1].likeCount >= 1
        /\ LikesOn(likes, "Comment", pr[p].resp.data[1].comment.id) # {}

\* The feed or comment listing of process p was answered 200
ListingDone(p) ==
    /\ pr[p].op \in {"feed", "listComments"}
    /\ pr[p].pc = "done" /\ pr[p].resp.status = 200

\* Every post, comment and reply of the response that is liked has a count
LikedAreCounted(data) ==
    \A i \in 1..Len(data) :
        /\ data[i].isLiked => data[i].likeCount >= 1
        /\ "replies" \in DOMAIN data[i] =>
              \A j \in 1..Len(data[i].replies) :
                  data[i].replies[j].isLiked => data[i].replies[j].likeCount >= 1

\* The requester's Like that the existence query of item <<i, j>> of p's
\* listing found was inserted after the count query of that item
InsertedBetween(p, i, j) ==
    \E e \in hist.probe :
        /\ e.by = p /\ e.item = <<i, j>>
        /\ e.found # 0 /\ e.found >= e.mark

\* C14 as stated: in every feed listing and comment listing response, for
\* every returned post, comment or reply, isLiked = true implies
\* likeCount >= 1, also when toggle-like requests interleave between the
\* listing's count query and its existence query.
C14_LikedImpliesCounted ==
    \A p \in Procs : ListingDone(p) => LikedAreCounted(pr[p].resp.data)

\* C14 as amended: in every feed listing and comment listing response, for
\* every returned post, comment or reply, isLiked = true implies
\* likeCount >= 1, whatever toggle-like requests interleave, unless the
\* requester's own Like on that item was inserted between the listing's count
\* query and its existence query for that item.
C14_CountedUnlessInserted ==
    \A p \in Procs :
        ListingDone(p) =>
            LET data == pr[p].resp.data IN
            \A i \in 1..Len(data) :
                /\ data[i].isLiked =>
                      data[i].likeCount >= 1 \/ InsertedBetween(p, i, 0)
                /\ "replies" \in DOMAIN data[i] =>
                      \A j \in 1..Len(data[i].replies) :
                          data[i].replies[j].isLiked =>
                              \/ data[i].replies[j].likeCount >= 1
                              \/ InsertedBetween(p, i, j)

\* C14 witness: a comment listing was answered with a reply that the
\* requester likes and that has a count, the requester's Like having been
\* there before the reply's count query, while a Like was inserted on the
\* listed comment during the listing and another toggle-like is in flight.
C14_Witness ==
    \E p \in Procs, q \in Procs :
        /\ ListingDone(p)
        /\ pr[p].op = "listComments"
        /\ Len(pr[p].resp.data) >= 1
        /\ Len(pr[p].resp.data[1].replies) >= 1
        /\ pr[p].resp.data[1].replies[1].isLiked
        /\ pr[p].resp.data[1].replies[1].likeCount >= 1
        /\ ~InsertedBetween(p, 1, 1)
        /\ \E e \in hist.probe, l \in likes :
               /\ e.by = p /\ e.item = <<1, 1>>
               /\ l.targetType = "Comment"
               /\ l.targetId = pr[p].resp.data[1].comment.id
               /\ l.id >= e.mark
        /\ pr[q].op = "toggleLike" /\ pr[q].pc = "tgLookup"

\* C15: after any sequence of create-comment, create-reply and delete-comment
\* operations, every stored Comment whose post is P appears in the response of
\* the listing for P, as a top-level comment or among the replies of a listed
\* top-level comment.
C15_AllReachable ==
    \A p \in SeqProcs :
        (pr[p].op = "listComments" /\ pr[p].pc = "done"
            /\ pr[p].resp.status = 200) =>
            LET data == pr[p].resp.data IN
            \A c \in comments :
                c.post = pr[p].id =>
                    \E i \in 1..Len(data) :
                        \/ data[i].comment = c
                        \/ \E j \in 1..Len(data[i].replies) :
                              data[i].replies[j].comment = c

====
